---- MODULE Spec2Model ----
(***************************************************************************)
(* ThermalPrinter (src/index.js): the command buffer, the driver discovery *)
(* (findDriver), print and getPrinters.  Every await of the code is one    *)
(* step: the request is issued by the step that reaches the await, the     *)
(* answer of the network is the input of the next step.                    *)
(* convertCanvasToEscPos (src/utils.js) is the operator of that name; the  *)
(* specification SpecEnc applies it to bounded pixel buffers.              *)
(***************************************************************************)
EXTENDS Integers, Sequences, FiniteSets

\* ---- bounds of the model ------------------------------------------------
MaxBuf == 2
MaxPixels == 4
MaxCalls == 2
MaxBuild == 2
MaxList == 2
MaxPrinters == 2

\* ---- program constants --------------------------------------------------
PortLow == 9123
PortHigh == 9130
Ports == PortLow..PortHigh

\* a value of driverApi / apiUrl: null, or `http://localhost:${port}`
NULL == [host |-> "", port |-> 0]
Url(p) == [host |-> "localhost", port |-> p]
Urls == {Url(p) : p \in Ports}

\* the two instances findDriver runs on: the caller's printer and the
\* temporary one that getPrinters constructs
Inst == {"this", "temp"}

\* JavaScript truthiness of an endpoint (if (this.driverApi), if (!apiUrl))
Truthy(u) == u # NULL
\* printerName not given (undefined); if (!printerName)
NoName == ""
PrinterNames == {"A", "B"}

\* what the network can answer
LiveResps == {"ok", "notok", "err"}
ProbeResps == {"ok", "notok", "err", "timeout"}
HealthBodies == {"CDH-Driver", "other", "missing", "unparsable"}
PostResps == {"ok", "notok", "err"}
FetchResps == {"resp", "err"}

\* JSON answers of /printers: an array of printer descriptors, or some object
JsonArray(l) == [isArray |-> TRUE, items |-> l]
JsonObject == [isArray |-> FALSE, items |-> <<>>]
Descriptors == {[name |-> n] : n \in PrinterNames}
PrinterLists ==
    UNION {[1..n -> Descriptors] : n \in 0..MaxPrinters}
PrinterBodies == {JsonArray(l) : l \in PrinterLists} \cup {JsonObject}

\* arguments of raw(bytes)
RawInputs == {<<65>>, <<27, 64>>}

VARIABLES
    driverApi,    \* [Inst -> endpoint]: the field driverApi of each instance
    buffer,       \* this.buffer
    stack,        \* the running calls, outermost first; <<>> when idle
    pc,           \* the await the innermost call is suspended at
    inst,         \* the instance the running findDriver works on
    port,         \* the loop variable of the scan
    printerName,  \* argument / local of print
    apiUrl,       \* local of getPrinters
    fd,           \* [Inst -> trace of the findDriver call of this operation]
    sent,         \* the /printers and /print requests of this operation
    outcome,      \* the operation in progress or completed, and its result
    buf0,         \* the buffer when the operation started
    lastFound,    \* the last findDriver on `this` returned true
    lastCall,     \* the builder method this step called and what it returned
    imageData,    \* argument of convertCanvasToEscPos: width, height, data
    brightnessThreshold,  \* its second argument
    command,      \* the array convertCanvasToEscPos returned
    encDone,      \* convertCanvasToEscPos has returned
    encCalls,     \* how often it was called with these arguments
    firstCommand, \* the array its first call returned
    colsRead,     \* the pixel columns whose channels the last call read
    maxRead,      \* the largest index of pixels it read, -1 if none
    cc,           \* the locals of two overlapping findDriver calls on `this`
    fx            \* the locals of a print_fixId call and of the calls it makes

printerVars == <<driverApi, buffer, stack, pc, inst, port, printerName,
                 apiUrl, fd, sent, outcome, buf0, lastFound, lastCall>>
encVars == <<imageData, brightnessThreshold, command, encDone, encCalls,
             firstCommand, colsRead, maxRead>>
vars == <<printerVars, encVars, cc, fx>>

\* ---- convertCanvasToEscPos (src/utils.js) ---------------------------------

\* NaN, the sum with an element the array does not have (undefined)
NaN == -1

\* pixels[idx] of a 0-indexed array is not undefined
Has(pixels, idx) == (idx + 1) \in DOMAIN pixels

\* pixels[idx] of a 0-indexed array
At(pixels, idx) == pixels[idx + 1]

\* a % b as the language computes it: the sign of a
JsMod(a, b) == IF a >= 0 THEN a % b ELSE 0 - ((0 - a) % b)

\* variant: the width is not padded (xBytes = width / 8, rounded down)
CeilDiv8_Floor(w) == w \div 8

\* Math.ceil(width / 8)
CeilDiv8(w) == (w + 7) \div 8

\* paddedWidth = Math.ceil(width / 8) * 8; xBytes = paddedWidth / 8
PaddedWidth(w) == CeilDiv8(w) * 8
XBytes(w) == PaddedWidth(w) \div 8

\* 1 << n for n in 0..7
Shl1(n) == 2 ^ n

\* variant: the alpha channel is added to the brightness
Brightness_WithAlpha(pixels, pxIndex) ==
    IF Has(pixels, pxIndex) /\ Has(pixels, pxIndex + 3)
    THEN At(pixels, pxIndex) + At(pixels, pxIndex + 1)
         + At(pixels, pxIndex + 2) + At(pixels, pxIndex + 3)
    ELSE NaN

\* pixels[pxIndex] + pixels[pxIndex + 1] + pixels[pxIndex + 2]
Brightness(pixels, pxIndex) ==
    IF Has(pixels, pxIndex) /\ Has(pixels, pxIndex + 2)
    THEN At(pixels, pxIndex) + At(pixels, pxIndex + 1) + At(pixels, pxIndex + 2)
    ELSE NaN

\* variant: a sum equal to the threshold is black too
IsBlack_Inclusive(brightness, thr) == brightness # NaN /\ brightness <= thr

\* brightness < brightnessThreshold (false for NaN)
IsBlack(brightness, thr) == brightness # NaN /\ brightness < thr

\* variant: the columns of the padding are not skipped
SkipsColumn_Never(pixelX, width) == FALSE

\* if (pixelX >= width) continue
SkipsColumn(pixelX, width) == pixelX >= width

\* what the body of the bit loop adds to byte for row y, byte column x
BitOf(img, thr, y, x, bit) ==
    LET pixelX == x * 8 + bit
        pxIndex == (y * img.width + pixelX) * 4
    IN  IF SkipsColumn(pixelX, img.width) THEN 0
        ELSE IF IsBlack(Brightness(img.data, pxIndex), thr) THEN Shl1(7 - bit)
        ELSE 0

\* variant: the bit loop stops one bit early
ByteOf_SevenBits(img, thr, y, x) ==
    BitOf(img, thr, y, x, 0) + BitOf(img, thr, y, x, 1)
    + BitOf(img, thr, y, x, 2) + BitOf(img, thr, y, x, 3)
    + BitOf(img, thr, y, x, 4) + BitOf(img, thr, y, x, 5)
    + BitOf(img, thr, y, x, 6)

\* byte after the bit loop: the bits are distinct, so |= adds them
ByteOf(img, thr, y, x) ==
    BitOf(img, thr, y, x, 0) + BitOf(img, thr, y, x, 1)
    + BitOf(img, thr, y, x, 2) + BitOf(img, thr, y, x, 3)
    + BitOf(img, thr, y, x, 4) + BitOf(img, thr, y, x, 5)
    + BitOf(img, thr, y, x, 6) + BitOf(img, thr, y, x, 7)

\* variant: the high byte is pushed first
SizeBytes_BigEndian(n) == <<n \div 256, JsMod(n, 256)>>

\* command.push(n % 256, Math.floor(n / 256))
SizeBytes(n) == <<JsMod(n, 256), n \div 256>>

\* command.push(0x1d, 0x76, 0x30, 0x00)
Header == <<29, 118, 48, 0>>

\* variant: command is an array of the module, kept between calls
NewCommand_Kept(prev) == prev

\* let command = []
NewCommand(prev) == <<>>

\* the array the call returns; prev is the array of the call before
EscPosAfter(prev, img, thr) ==
    LET xBytes == XBytes(img.width)
        rows == IF img.height > 0 /\ xBytes > 0 THEN img.height * xBytes ELSE 0
    IN  NewCommand(prev) \o Header \o SizeBytes(xBytes) \o SizeBytes(img.height)
        \o [k \in 1..rows |->
               ByteOf(img, thr, (k - 1) \div xBytes, (k - 1) % xBytes)]

convertCanvasToEscPos(img, thr) == EscPosAfter(<<>>, img, thr)

\* the pixel columns at which the bit loop reads pixels
ColumnsRead(img) ==
    IF img.height > 0
    THEN {pixelX \in 0..(PaddedWidth(img.width) - 1) :
            ~SkipsColumn(pixelX, img.width)}
    ELSE {}

\* the largest pxIndex + 2 of the loops: last row, last column read
MaxIndexRead(img) ==
    LET cols == ColumnsRead(img)
    IN  IF cols = {} THEN -1
        ELSE LET last == CHOOSE c \in cols : \A o \in cols : o <= c
             IN  ((img.height - 1) * img.width + last) * 4 + 2

\* variant: the thresholded value is written back to the red channel
InputAfter_Binarised(img, thr) ==
    [img EXCEPT !.data =
        [k \in 1..Len(img.data) |->
            IF k % 4 = 1 /\ IsBlack(Brightness(img.data, k - 1), thr)
            THEN 0 ELSE img.data[k]]]

\* imageData when the call returns: no statement assigns to it
InputAfter(img, thr) == img

\* ---- the pixel buffers the encoder is applied to ------------------------

\* RGBA values with channel sums 0, 381, 382 and 765; black with two alphas
Palette ==
    {<<0, 0, 0, 255>>, <<0, 0, 0, 0>>, <<127, 127, 127, 255>>,
     <<128, 127, 127, 0>>, <<255, 255, 255, 255>>}

\* the ImageData of w x h pixels px[1], px[2], ... in row-major order
ImageOf(w, h, px) ==
    [width |-> w, height |-> h,
     data |-> [k \in 1..(w * h * 4) |-> px[((k - 1) \div 4) + 1][((k - 1) % 4) + 1]]]

Dims == {d \in (1..MaxPixels) \X (1..MaxPixels) : d[1] * d[2] <= MaxPixels}
SmallImages ==
    UNION {{ImageOf(d[1], d[2], px) : px \in [1..(d[1] * d[2]) -> Palette]} :
           d \in Dims}

\* wider buffers, striped with two colours
WideWidths == {8, 9, 16, 17, 210, 256, 300}
WideImages ==
    {ImageOf(w, h, [k \in 1..(w * h) |-> IF k % 2 = 0 THEN c[1] ELSE c[2]]) :
     w \in WideWidths, h \in 1..2, c \in Palette \X Palette}

\* buffers whose dimensions and length do not agree
MalformedImages ==
    {[width |-> 0, height |-> 1, data |-> <<>>],
     [width |-> 1, height |-> 0, data |-> <<>>],
     [width |-> -1, height |-> 1, data |-> <<>>],
     [width |-> 1, height |-> -1, data |-> <<>>],
     [width |-> 2, height |-> 1, data |-> <<0, 0, 0, 255>>],
     [width |-> 9, height |-> 2, data |-> <<0, 0, 0, 255>>],
     [width |-> 1, height |-> 1, data |-> <<0, 0, 0, 255, 0, 0, 0, 255>>]}

\* dimensions the two bytes of a size field cannot say; no pixel rows
OversizedImages ==
    {[width |-> 0, height |-> 65536, data |-> <<>>],
     [width |-> 524281, height |-> 0, data |-> <<>>]}

\* black buffers whose width in bytes, resp. height, needs the high byte
LargeImages ==
    {ImageOf(2041, 1, [k \in 1..2041 |-> <<0, 0, 0, 255>>]),
     ImageOf(1, 257, [k \in 1..257 |-> <<0, 0, 0, 255>>])}

Images ==
    SmallImages \cup WideImages \cup LargeImages \cup MalformedImages
    \cup OversizedImages
Thresholds == {382, 1}
NoImage == [width |-> 0, height |-> 0, data |-> <<>>]

\* ---- the command buffer builder ---------------------------------------------

\* no builder method was called in this step
NoBuilderCall ==
    [op |-> "none", returned |-> "none", arg |-> NoImage, bytes |-> <<>>]

\* the method op was called on `this`; every method ends in return this
Called(op) == [NoBuilderCall EXCEPT !.op = op, !.returned = "this"]

\* variant: the threshold the README names
DefaultThreshold_380 == 380

\* brightnessThreshold = 382, the default of the second parameter
DefaultThreshold == 382

\* variant: the bytes are put in front of the buffer (unshift)
Push_Front(buf, bytes) == bytes \o buf

\* this.buffer.push(...bytes)
Push(buf, bytes) == buf \o bytes

\* the values of CMD (constants.js)
CMD_INIT == <<27, 64>>
CMD_ALIGN_LEFT == <<27, 97, 0>>
CMD_BOLD_ON == <<27, 69, 1>>
CMD_BOLD_OFF == <<27, 69, 0>>
CMD_LF == 10
CMD_CUT_FULL == <<29, 86, 0>>
CMD_CUT_PARTIAL == <<29, 86, 1>>
CMD_BEEP(duration) == <<27, 66, 1, duration>>
CMD_DRAWER_KICK == <<27, 112, 0, 12, 120>>

\* n times the byte sequence b
RECURSIVE Repeat(_, _)
Repeat(b, n) == IF n <= 0 THEN <<>> ELSE b \o Repeat(b, n - 1)

\* the UTF-8 bytes of a code point below 2048
Utf8(cp) ==
    IF cp < 128 THEN <<cp>> ELSE <<192 + (cp \div 64), 128 + (cp % 64)>>

\* new TextEncoder().encode(text); a text is a sequence of code points
RECURSIVE TextEncode(_)
TextEncode(text) ==
    IF text = <<>> THEN <<>> ELSE Utf8(Head(text)) \o TextEncode(Tail(text))

\* the arguments the builder methods are called with
Texts == {<<>>, <<65>>, <<233, 49>>}
Counts == {0, 1, 2}
Alignments == {0, 1, 2}
DividerChars == {<<45>>}
DividerWidths == {0, 2, 32}
Durations == {100}
BuildImages ==
    {ImageOf(1, 1, <<(<<0, 0, 0, 255>>)>>),
     ImageOf(1, 1, <<(<<127, 127, 127, 255>>)>>),
     ImageOf(2, 1, <<(<<255, 255, 255, 255>>), (<<0, 0, 0, 255>>)>>)}

\* ---- the locals of overlapping findDriver calls ---------------------------

CallIds == {1, 2}
\* the operations a call may be: the first a findDriver or a print, the
\* second a findDriver
CallOps(c) == IF c = 1 THEN {"findDriver", "print"} ELSE {"findDriver"}
\* the endpoints the caller assigns while calls overlap
ConcUrls == {Url(PortLow), Url(PortHigh)}
\* no POST was issued
NotPosted == [host |-> "none", port |-> 0]
\* a call that has not started: port is `let port`, hit the port it matched
NoCall == [pc |-> "none", port |-> 0, liveResp |-> "none", hit |-> 0,
           result |-> "none", op |-> "none", name |-> NoName,
           liveTo |-> NULL, verified |-> NULL, postTo |-> NotPosted]

\* ---- print_fixId and getPrinters_filterByVidPid ------------------------------

\* the identifiers of a descriptor; "none" is a descriptor without vid
FixIds == {<<"V1", "P1">>, <<"V1", "P2">>, <<"V2", "P1">>, <<"none", "P1">>}
FixDescriptors ==
    {[name |-> n, vid |-> id[1], pid |-> id[2]] :
        n \in PrinterNames, id \in FixIds}
FixLists == UNION {[1..n -> FixDescriptors] : n \in 0..MaxList}
FixBodies == {JsonArray(l) : l \in FixLists} \cup {JsonObject}

\* the arguments (vid, pid) print_fixId is called with
FixArgs == {<<"V1", "P1">>, <<"V2", "P1">>}

\* variant: one of the two identifiers is enough
Matches_Either(p, vid, pid) == p.vid = vid \/ p.pid = pid

\* p => p.vid === vid && p.pid === pid
Matches(p, vid, pid) == p.vid = vid /\ p.pid = pid

\* allPrinters.filter(p => p.vid === vid && p.pid === pid)
RECURSIVE FilterByVidPid(_, _, _)
FilterByVidPid(list, vid, pid) ==
    IF list = <<>> THEN <<>>
    ELSE (IF Matches(Head(list), vid, pid) THEN <<Head(list)>> ELSE <<>>)
         \o FilterByVidPid(Tail(list), vid, pid)

\* allPrinters after the call of filter, which builds a new array
ListAfterFilter(list) == list

\* variant: the last match is taken
FirstOf_Last(list) == list[Len(list)]

\* printers[0]
FirstOf(list) == list[1]

\* no print_fixId call: phase 1 is its own findDriver, phase 2 that of the
\* print it ends with
NoFix ==
    [pc |-> "none", phase |-> 0, port |-> 0, vid |-> "none", pid |-> "none",
     body |-> JsonObject, allPrinters |-> <<>>, filtered |-> <<>>,
     filterDone |-> FALSE, name |-> NoName, postTo |-> NotPosted,
     kind |-> "none"]

FreshTrace ==
    [called |-> FALSE, prev |-> FALSE, entryApi |-> NULL, liveTo |-> NULL,
     liveResp |-> "none", scanLog |-> <<>>, hit |-> 0, result |-> "none",
     last |-> "none", lastPort |-> 0, inflight |-> {}]

NoOutcome ==
    [op |-> "none", kind |-> "none", found |-> FALSE, post |-> "none",
     printers |-> JsonArray(<<>>), arg |-> NULL, fetch |-> "none"]
Pending(o) == [NoOutcome EXCEPT !.op = o, !.kind = "pending"]

Init ==
    /\ driverApi = [i \in Inst |-> NULL]
    /\ buffer = <<>>
    /\ stack = <<>>
    /\ pc = "idle"
    /\ inst = "this"
    /\ port = 0
    /\ printerName = NoName
    /\ apiUrl = NULL
    /\ fd = [i \in Inst |-> FreshTrace]
    /\ sent = {}
    /\ outcome = NoOutcome
    /\ buf0 = <<>>
    /\ lastFound = FALSE
    /\ lastCall = NoBuilderCall
    /\ imageData = NoImage
    /\ brightnessThreshold = 382
    /\ command = <<>>
    /\ encDone = FALSE
    /\ encCalls = 0
    /\ firstCommand = <<>>
    /\ colsRead = {}
    /\ maxRead = -1
    /\ cc = [c \in CallIds |-> NoCall]
    /\ fx = NoFix

Front(s) == SubSeq(s, 1, Len(s) - 1)
Last(s) == s[Len(s)]

\* the control state after a step
CtlSet(p, s, i, pt, nm, au, sn, oc, f, d) ==
    /\ pc' = p
    /\ stack' = s
    /\ inst' = i
    /\ port' = pt
    /\ printerName' = nm
    /\ apiUrl' = au
    /\ sent' = sn
    /\ outcome' = oc
    /\ fd' = f
    /\ driverApi' = d
    /\ UNCHANGED <<encVars, cc, fx>>

\* a step of an asynchronous operation: no builder method is called
Ctl(p, s, i, pt, nm, au, sn, oc, f, d) ==
    /\ CtlSet(p, s, i, pt, nm, au, sn, oc, f, d)
    /\ lastCall' = NoBuilderCall

\* the operation returns or throws to the caller of the library
Done(oc, sn, f, d) ==
    Ctl("done", <<>>, "this", 0, NoName, NULL, sn, oc, f, d)

\* print: fetch(`${this.driverApi}/print?printer=...`, POST buffer)
IssuePost(nm, sn, oc, f, d) ==
    Ctl("post", <<"print">>, "this", 0, nm, NULL,
        sn \cup {[path |-> "print", to |-> d["this"]]}, oc, f, d)

\* getPrinters: fetch(`${apiUrl}/printers`)
FetchPrinters(au, s, nm, sn, oc, f, d) ==
    Ctl("printers", s, "this", 0, nm, au,
        sn \cup {[path |-> "printers", to |-> au]}, oc, f, d)

\* if (printers.length > 0)
HasPrinters(list) == list.isArray /\ Len(list.items) > 0

\* getPrinters returns list; s is the stack of its callers
ReturnGetPrinters(list, s, nm, sn, oc, f, d) ==
    IF s = <<>>
    THEN Done([oc EXCEPT !.kind = "returned", !.printers = list], sn, f, d)
    ELSE IF HasPrinters(list)
         THEN IssuePost(list.items[1].name, sn, oc, f, d)
         ELSE Done([oc EXCEPT !.kind = "NoPrinter"], sn, f, d)

\* the health requests of a findDriver call that are issued and not settled
LiveReq(u) == [kind |-> "live", to |-> u]
ScanReq(p) == [kind |-> "scan", to |-> Url(p)]
Issue(q, fl) == fl \cup {q}

\* variant: the next request is issued without awaiting this one
Settle_NotAwaited(q, fl) == fl

\* await fetch(...): the call goes on only when the request has settled
\* (answered, rejected, or aborted by the timer)
Settle(q, fl) == fl \ {q}

\* variant: a failed /printers request is thrown to the caller
OnPrintersFailure_Throws(a, s, nm, sn, oc, f, d) ==
    Done([oc EXCEPT !.kind = "DeliveryFailed", !.fetch = a], sn, f, d)

\* getPrinters: catch (e) { console.error(...); return []; }
OnPrintersFailure(a, s, nm, sn, oc, f, d) ==
    ReturnGetPrinters(JsonArray(<<>>), s, nm, sn, [oc EXCEPT !.fetch = a],
                      f, d)

\* findDriver starts on instance i: the liveness probe of a cached endpoint,
\* or the first probe of the scan
EnterFindDriver(i, s, nm, au, sn, oc, f, d, pv) ==
    IF Truthy(d[i])
    THEN Ctl("health", s, i, 0, nm, au, sn, oc,
             [f EXCEPT ![i] = [FreshTrace EXCEPT !.called = TRUE,
                                                 !.prev = pv,
                                                 !.entryApi = d[i],
                                                 !.liveTo = d[i],
                                                 !.inflight =
                                                     Issue(LiveReq(d[i]),
                                                           {})]], d)
    ELSE Ctl("probe", s, i, PortLow, nm, au, sn, oc,
             [f EXCEPT ![i] = [FreshTrace EXCEPT !.called = TRUE,
                                                 !.prev = pv,
                                                 !.scanLog = <<PortLow>>,
                                                 !.inflight =
                                                     Issue(ScanReq(PortLow),
                                                           {})]], d)

\* variant: the override endpoint is ignored and the driver is always
\* looked for
CallGetPrinters_AlwaysDiscover(overrideUrl, s, nm, sn, oc, f, d) ==
    EnterFindDriver("temp", Append(s, "findDriver"), nm, NULL, sn, oc,
                    f, [d EXCEPT !["temp"] = NULL], FALSE)

\* getPrinters(overrideUrl) up to its first await; s includes getPrinters
CallGetPrinters(overrideUrl, s, nm, sn, oc, f, d) ==
    IF ~Truthy(overrideUrl)
    THEN EnterFindDriver("temp", Append(s, "findDriver"), nm, NULL, sn, oc,
                         f, [d EXCEPT !["temp"] = NULL], FALSE)
    ELSE FetchPrinters(overrideUrl, s, nm, sn, oc, f, d)

\* variant: the result of findDriver is ignored
ThrowsNotFound_Never(found) == FALSE

\* print: if (!found) throw
ThrowsNotFound(found) == ~found

\* findDriver on instance i returns found to its caller (the top of s)
ReturnFindDriver(found, i, s, nm, au, sn, oc, f, d) ==
    LET f2 == [f EXCEPT ![i].result = IF found THEN "true" ELSE "false"]
    IN  IF s = <<>>
        THEN Done([oc EXCEPT !.kind = "returned", !.found = found],
                  sn, f2, d)
        ELSE IF Last(s) = "print"
        THEN IF ThrowsNotFound(found)
             THEN Done([oc EXCEPT !.kind = "DriverNotFound"], sn, f2, d)
             ELSE IF nm = NoName
                  THEN CallGetPrinters(d["this"], Append(s, "getPrinters"),
                                       nm, sn, oc, f2, d)
                  ELSE IssuePost(nm, sn, oc, f2, d)
        ELSE IF found
             THEN FetchPrinters(d["temp"], s, nm, sn, oc, f2, d)
             ELSE ReturnGetPrinters(JsonArray(<<>>), Front(s), nm, sn, oc,
                                    f2, d)

\* lastFound after findDriver on i returned found
FoundAfter(i, found) == IF i = "this" THEN found ELSE lastFound

\* variants: the loop steps by two; the loop stops before the last port;
\* the loop probes the same port again
NextPort_Skip(p) == p + 2
NextPort_Retry(p) == p
ScanContinues_Short(p) == p < PortHigh

\* for (let port = 9123; port <= 9130; port++)
NextPort(p) == p + 1
ScanContinues(p) == p <= PortHigh

\* the probe of the current port was a miss: probe the next port, or
\* return false when the range is exhausted
NextProbe(i, s, nm, au, sn, oc, f, d) ==
    LET p2 == NextPort(port)
    IN  IF ScanContinues(p2)
        THEN Ctl("probe", s, i, p2, nm, au, sn, oc,
                 [f EXCEPT ![i].scanLog = Append(@, p2),
                           ![i].inflight = Issue(ScanReq(p2), @)], d)
        ELSE ReturnFindDriver(FALSE, i, Front(s), nm, au, sn, oc, f, d)

\* the trace after the probe of the current port settled with answer a
Settled(f, i, a) ==
    [f EXCEPT ![i].last = a, ![i].lastPort = port,
              ![i].inflight = Settle(ScanReq(port), @)]

\* variant: an error of a probe ends the scan (break instead of continue)
OnProbeError_Abort(a, i, s, nm, au, sn, oc, f, d) ==
    ReturnFindDriver(FALSE, i, Front(s), nm, au, sn, oc, Settled(f, i, a), d)

\* variant: the error of a probe is thrown to the caller of findDriver
OnProbeError_Rethrow(a, i, s, nm, au, sn, oc, f, d) ==
    Done([oc EXCEPT !.kind = "Rejected"], sn,
         [Settled(f, i, a) EXCEPT ![i].result = "rejected"], d)

\* catch (e) { continue; }: the fetch rejected, was aborted by the timer, or
\* res.json() threw
OnProbeError(a, i, s, nm, au, sn, oc, f, d) ==
    NextProbe(i, s, nm, au, sn, oc, Settled(f, i, a), d)

\* variant: any service that answers with a parsable body is accepted
IsDriver_AnyService(b) == b # "unparsable"

\* if (data.service === "CDH-Driver")
IsDriver(b) == b = "CDH-Driver"

\* variant: the match is recorded but the loop goes on (last match wins)
OnMatch_KeepScanning(a, i, s, nm, au, sn, oc, f, d) ==
    LET f2 == [Settled(f, i, a) EXCEPT ![i].hit = port]
    IN  IF ScanContinues(NextPort(port))
        THEN NextProbe(i, s, nm, au, sn, oc, f2, d)
        ELSE ReturnFindDriver(TRUE, i, Front(s), nm, au, sn, oc, f2, d)

\* the probed port is the driver: return true.  The code leaves driverApi as
\* it is (no assignment between lines 190 and 191)
OnMatch(a, i, s, nm, au, sn, oc, f, d) ==
    ReturnFindDriver(TRUE, i, Front(s), nm, au, sn, oc,
                     [Settled(f, i, a) EXCEPT ![i].hit = port], d)

\* the step exhausts the range after a miss on the current port
LastMiss == ~ScanContinues(NextPort(port))

\* variant: a lost connection falls back to the default endpoint
ApiAfterLiveness_Default(r, d, i) ==
    IF r = "err" THEN [d EXCEPT ![i] = Url(PortLow)] ELSE d

\* driverApi after the liveness probe: catch (e) { this.driverApi = null }
ApiAfterLiveness(r, d, i) ==
    IF r = "err" THEN [d EXCEPT ![i] = NULL] ELSE d

\* variant: the buffer is cleared whatever the driver answered
BufferAfterPost_AlwaysClear(r, b) == <<>>

\* print: if (!res.ok) throw ...; this.clear()
BufferAfterPost(r, b) == IF r = "ok" THEN <<>> ELSE b

\* ---- operations the caller starts ----------------------------------------

Idle == stack = <<>>

\* a synchronous operation of the caller between two asynchronous ones: the
\* fields take their new values, the record of the last asynchronous
\* operation is dropped
Forget(d, b, lf, lc) ==
    /\ CtlSet("idle", <<>>, "this", 0, NoName, NULL, {}, NoOutcome,
              [i \in Inst |-> FreshTrace], d)
    /\ buffer' = b
    /\ buf0' = b
    /\ lastFound' = lf
    /\ lastCall' = lc

\* await printer.findDriver()
findDriver ==
    /\ Idle
    /\ EnterFindDriver("this", <<"findDriver">>, NoName, NULL, {},
                       Pending("findDriver"), [i \in Inst |-> FreshTrace],
                       driverApi, lastFound)
    /\ buf0' = buffer
    /\ UNCHANGED <<buffer, lastFound>>

\* await printer.print(name)
print(name) ==
    /\ Idle
    /\ EnterFindDriver("this", <<"print", "findDriver">>, name, NULL, {},
                       Pending("print"), [i \in Inst |-> FreshTrace],
                       driverApi, lastFound)
    /\ buf0' = buffer
    /\ UNCHANGED <<buffer, lastFound>>

\* await ThermalPrinter.getPrinters(overrideUrl)
getPrinters(overrideUrl) ==
    /\ Idle
    /\ CallGetPrinters(overrideUrl, <<"getPrinters">>, NoName, {},
                       [Pending("getPrinters") EXCEPT !.arg = overrideUrl],
                       [i \in Inst |-> FreshTrace], driverApi)
    /\ buf0' = buffer
    /\ UNCHANGED <<buffer, lastFound>>

\* printer.raw(bytes)
raw(bytes) ==
    /\ Idle
    /\ Len(buffer) + Len(bytes) <= MaxBuf
    /\ Forget(driverApi, Push(buffer, bytes), lastFound, Called("raw"))

\* variant: clear() also forgets the endpoint
ApiAfterClear_Reset(d) == [d EXCEPT !["this"] = NULL]

\* clear() assigns this.buffer only
ApiAfterClear(d) == d

\* printer.clear()
clear ==
    /\ Idle
    /\ Forget(ApiAfterClear(driverApi), <<>>, lastFound, Called("clear"))

\* the element of a Uint8Array made from the number v
ToUint8(v) == v % 256

\* new Uint8Array(buf)
Uint8ArrayOf(buf) == [k \in 1..Len(buf) |-> ToUint8(buf[k])]

\* printer.getBuffer()
getBuffer ==
    /\ Idle
    /\ Forget(driverApi, buffer, lastFound,
              [NoBuilderCall EXCEPT !.op = "getBuffer",
                                    !.bytes = Uint8ArrayOf(buffer)])

\* printer.driverApi = u: the field is public and writable
AssignDriverApi(u) ==
    /\ Idle
    /\ Forget([driverApi EXCEPT !["this"] = u], buffer, FALSE, NoBuilderCall)

\* ---- the steps of findDriver ----------------------------------------------

\* the liveness probe of the cached endpoint settles
HealthResponse(r) ==
    /\ pc = "health"
    /\ LET d2 == ApiAfterLiveness(r, driverApi, inst)
           f2 == [fd EXCEPT ![inst].liveResp = r,
                            ![inst].inflight =
                                Settle(LiveReq(fd[inst].liveTo), @)]
       IN  IF r = "ok"
           THEN /\ ReturnFindDriver(TRUE, inst, Front(stack), printerName,
                                    apiUrl, sent, outcome, f2, d2)
                /\ lastFound' = FoundAfter(inst, TRUE)
           ELSE /\ Ctl("probe", stack, inst, PortLow, printerName, apiUrl,
                       sent, outcome,
                       [f2 EXCEPT ![inst].scanLog = <<PortLow>>,
                                  ![inst].inflight =
                                      Issue(ScanReq(PortLow), @)], d2)
                /\ UNCHANGED lastFound
    /\ UNCHANGED <<buffer, buf0>>

\* the scan probe of the current port settles: fetch resolved, rejected or
\* was aborted by the 100 ms timer
ProbeResponse(r) ==
    /\ pc = "probe"
    /\ IF r = "ok"
       THEN /\ Ctl("json", stack, inst, port, printerName, apiUrl, sent,
                   outcome, fd, driverApi)
            /\ UNCHANGED lastFound
       ELSE /\ IF r = "notok"
               THEN NextProbe(inst, stack, printerName, apiUrl, sent,
                              outcome, Settled(fd, inst, r), driverApi)
               ELSE OnProbeError(r, inst, stack, printerName, apiUrl, sent,
                                 outcome, fd, driverApi)
            /\ lastFound' = IF LastMiss THEN FoundAfter(inst, FALSE)
                            ELSE lastFound
    /\ UNCHANGED <<buffer, buf0>>

\* res.json() of the scan probe settles with the body b
JsonResponse(b) ==
    /\ pc = "json"
    /\ IF b = "unparsable"
       THEN /\ OnProbeError(b, inst, stack, printerName, apiUrl, sent,
                            outcome, fd, driverApi)
            /\ lastFound' = IF LastMiss THEN FoundAfter(inst, FALSE)
                            ELSE lastFound
       ELSE IF IsDriver(b)
       THEN /\ OnMatch(b, inst, stack, printerName, apiUrl, sent, outcome,
                       fd, driverApi)
            /\ lastFound' = FoundAfter(inst, TRUE)
       ELSE /\ NextProbe(inst, stack, printerName, apiUrl, sent, outcome,
                         Settled(fd, inst, b), driverApi)
            /\ lastFound' = IF LastMiss THEN FoundAfter(inst, FALSE)
                            ELSE lastFound
    /\ UNCHANGED <<buffer, buf0>>

\* an awaited promise that no timer bounds never settles: the liveness
\* fetch (no signal is passed), res.json() of a scan probe (clearTimeout ran
\* before it), the /printers request and the POST.  A scan fetch that does
\* not answer is aborted by the timer instead: ProbeResponse("timeout").
Unbounded == {"health", "json", "printers", "printersJson", "post"}
Hangs ==
    /\ pc \in Unbounded
    /\ pc' = "hung"
    /\ UNCHANGED <<driverApi, buffer, stack, inst, port, printerName, apiUrl,
                   fd, sent, outcome, buf0, lastFound, lastCall, encVars, cc, fx>>

\* ---- the steps of getPrinters and print ---------------------------------

\* fetch(`${apiUrl}/printers`) settles
PrintersResponse(r) ==
    /\ pc = "printers"
    /\ IF r = "resp"
       THEN Ctl("printersJson", stack, inst, port, printerName, apiUrl,
                sent, outcome, fd, driverApi)
       ELSE OnPrintersFailure(r, Front(stack), printerName, sent, outcome,
                              fd, driverApi)
    /\ UNCHANGED <<buffer, buf0, lastFound>>

\* res.json() of /printers settles: a body, or a parse error
PrintersJson(b, parsed) ==
    /\ pc = "printersJson"
    /\ IF parsed
       THEN ReturnGetPrinters(b, Front(stack), printerName, sent,
                              [outcome EXCEPT !.fetch = "json"], fd,
                              driverApi)
       ELSE OnPrintersFailure("unparsable", Front(stack), printerName, sent,
                              outcome, fd, driverApi)
    /\ UNCHANGED <<buffer, buf0, lastFound>>

\* the POST to /print settles
PostResponse(r) ==
    /\ pc = "post"
    /\ buffer' = BufferAfterPost(r, buffer)
    /\ Done([outcome EXCEPT !.kind = IF r = "ok" THEN "success"
                                     ELSE "DeliveryFailed",
                            !.post = r],
            sent, fd, driverApi)
    /\ UNCHANGED <<buf0, lastFound>>

Next ==
    \/ findDriver
    \/ \E name \in PrinterNames \cup {NoName} : print(name)
    \/ \E o \in Urls \cup {NULL} : getPrinters(o)
    \/ \E bytes \in RawInputs : raw(bytes)
    \/ clear
    \/ getBuffer
    \/ \E u \in Urls : AssignDriverApi(u)
    \/ \E r \in LiveResps : HealthResponse(r)
    \/ \E r \in ProbeResps : ProbeResponse(r)
    \/ \E b \in HealthBodies : JsonResponse(b)
    \/ \E r \in FetchResps : PrintersResponse(r)
    \/ \E b \in PrinterBodies, parsed \in BOOLEAN : PrintersJson(b, parsed)
    \/ \E r \in PostResps : PostResponse(r)
    \/ Hangs

Spec == Init /\ [][Next]_vars

\* ---- the builder methods, called in any order ---------------------------------

\* a builder method appends bytes and returns this
Build(op, bytes) ==
    /\ Len(buffer) <= MaxBuild
    /\ Forget(driverApi, Push(buffer, bytes), lastFound, Called(op))

init == Idle /\ Build("init", CMD_INIT)

\* cmd = [...CMD.ALIGN_LEFT]; cmd[2] = alignment
align(alignment) ==
    /\ Idle
    /\ Build("align", [CMD_ALIGN_LEFT EXCEPT ![3] = alignment])

bold(enable) ==
    /\ Idle
    /\ Build("bold", IF enable THEN CMD_BOLD_ON ELSE CMD_BOLD_OFF)

feed(lines) == Idle /\ Build("feed", Repeat(<<CMD_LF>>, lines))

cut(partial) ==
    /\ Idle
    /\ Build("cut", IF partial THEN CMD_CUT_PARTIAL ELSE CMD_CUT_FULL)

\* the bytes line(text) pushes: encoder.encode(text + "\n")
LineBytes(text) == TextEncode(text \o <<10>>)

line(text) == Idle /\ Build("line", LineBytes(text))

newline(count) == Idle /\ Build("newline", Repeat(<<CMD_LF>>, count))

\* this.line(char.repeat(width)); return this
divider(char, width) ==
    /\ Idle
    /\ Build("divider", LineBytes(Repeat(char, width)))

beep(times, duration) ==
    /\ Idle
    /\ Build("beep", Repeat(CMD_BEEP(duration), times))

drawerKick == Idle /\ Build("drawerKick", CMD_DRAWER_KICK)

\* bytes = convertCanvasToEscPos(imageData), with the default threshold
image(img) ==
    /\ Idle
    /\ Len(buffer) <= MaxBuild
    /\ Forget(driverApi,
              Push(buffer, convertCanvasToEscPos(img, DefaultThreshold)),
              lastFound, [Called("image") EXCEPT !.arg = img])

NextBuild ==
    \/ init
    \/ \E a \in Alignments : align(a)
    \/ \E e \in BOOLEAN : bold(e)
    \/ \E n \in Counts : feed(n)
    \/ \E pt \in BOOLEAN : cut(pt)
    \/ \E t \in Texts : line(t)
    \/ \E n \in Counts : newline(n)
    \/ \E ch \in DividerChars, w \in DividerWidths : divider(ch, w)
    \/ \E n \in Counts, d \in Durations : beep(n, d)
    \/ drawerKick
    \/ \E bytes \in RawInputs : raw(bytes)
    \/ \E img \in BuildImages : image(img)
    \/ clear

SpecBuild == Init /\ [][NextBuild]_vars

\* ---- print_fixId(vid, pid), as in the README's copy of index.js ---------------

\* the variables a step of print_fixId leaves alone
FixFrame ==
    UNCHANGED <<stack, pc, inst, port, printerName, apiUrl, fd, sent, outcome,
                buf0, lastFound, lastCall, encVars, cc>>

\* findDriver starts: the liveness probe of a cached endpoint, or the scan
FixEnterFind(f, d) ==
    IF Truthy(d["this"]) THEN [f EXCEPT !.pc = "health"]
    ELSE [f EXCEPT !.pc = "probe", !.port = PortLow]

\* findDriver returned true: print_fixId asks this.driverApi for the
\* printers; the print it ends with posts to this.driverApi
FixFound(f, d) ==
    IF f.phase = 1 THEN [f EXCEPT !.pc = "printers"]
    ELSE [f EXCEPT !.pc = "post", !.postTo = d["this"]]

\* findDriver returned false: throw new Error("Cannot connect ...")
FixNotFound(f) == [f EXCEPT !.pc = "done", !.kind = "DriverNotFound"]

\* the probe of the current port was a miss
FixNextProbe(f) ==
    IF ScanContinues(NextPort(f.port))
    THEN [f EXCEPT !.pc = "probe", !.port = NextPort(f.port)]
    ELSE FixNotFound(f)

\* this.driverApi = url
ApiAfterMatch(d, p) == [d EXCEPT !["this"] = Url(p)]

\* await printer.print_fixId(vid, pid), up to the first await
print_fixId(vid, pid) ==
    /\ fx.pc = "start"
    /\ fx' = FixEnterFind([fx EXCEPT !.phase = 1, !.vid = vid, !.pid = pid],
                          driverApi)
    /\ UNCHANGED <<driverApi, buffer>>
    /\ FixFrame

\* the liveness probe settles
FixHealth(r) ==
    /\ fx.pc = "health"
    /\ driverApi' = ApiAfterLiveness(r, driverApi, "this")
    /\ fx' = IF r = "ok" THEN FixFound(fx, driverApi)
             ELSE [fx EXCEPT !.pc = "probe", !.port = PortLow]
    /\ UNCHANGED buffer
    /\ FixFrame

\* the fetch of the current port settles
FixProbe(r) ==
    /\ fx.pc = "probe"
    /\ fx' = IF r = "ok" THEN [fx EXCEPT !.pc = "json"] ELSE FixNextProbe(fx)
    /\ UNCHANGED <<driverApi, buffer>>
    /\ FixFrame

\* res.json() of the current port settles
FixJson(b) ==
    /\ fx.pc = "json"
    /\ IF b # "unparsable" /\ IsDriver(b)
       THEN /\ driverApi' = ApiAfterMatch(driverApi, fx.port)
            /\ fx' = FixFound(fx, driverApi')
       ELSE /\ driverApi' = driverApi
            /\ fx' = FixNextProbe(fx)
    /\ UNCHANGED buffer
    /\ FixFrame

\* getPrinters_filterByVidPid returns list to print_fixId, which throws when
\* it is empty and else calls this.print(printers[0].name)
FilterReturns(f, list, d) ==
    LET g == [f EXCEPT !.filtered = list, !.filterDone = TRUE]
    IN  IF Len(list) = 0
        THEN [g EXCEPT !.pc = "done", !.kind = "NoPrinterMatch"]
        ELSE FixEnterFind([g EXCEPT !.phase = 2, !.name = FirstOf(list).name],
                          d)

\* fetch(`${apiUrl}/printers`) of getPrinters_filterByVidPid settles
FilterFetch(r) ==
    /\ fx.pc = "printers"
    /\ fx' = IF r = "resp" THEN [fx EXCEPT !.pc = "printersJson"]
             ELSE FilterReturns(fx, <<>>, driverApi)
    /\ UNCHANGED <<driverApi, buffer>>
    /\ FixFrame

\* res.json() settles; a body that is no array has no filter method, and
\* like a parse error that ends in the catch: return []
FilterJson(b, parsed) ==
    /\ fx.pc = "printersJson"
    /\ fx' = IF parsed /\ b.isArray
             THEN FilterReturns([fx EXCEPT !.body = b,
                                           !.allPrinters =
                                               ListAfterFilter(b.items)],
                                FilterByVidPid(b.items, fx.vid, fx.pid),
                                driverApi)
             ELSE FilterReturns(fx, <<>>, driverApi)
    /\ UNCHANGED <<driverApi, buffer>>
    /\ FixFrame

\* the POST of print settles
FixPost(r) ==
    /\ fx.pc = "post"
    /\ buffer' = BufferAfterPost(r, buffer)
    /\ fx' = [fx EXCEPT !.pc = "done",
                        !.kind = IF r = "ok" THEN "success"
                                 ELSE "DeliveryFailed"]
    /\ UNCHANGED driverApi
    /\ FixFrame

InitFix ==
    /\ driverApi \in {[i \in Inst |-> NULL],
                       [i \in Inst |-> IF i = "this" THEN Url(PortHigh)
                                       ELSE NULL]}
    /\ buffer \in RawInputs
    /\ stack = <<>>
    /\ pc = "idle"
    /\ inst = "this"
    /\ port = 0
    /\ printerName = NoName
    /\ apiUrl = NULL
    /\ fd = [i \in Inst |-> FreshTrace]
    /\ sent = {}
    /\ outcome = NoOutcome
    /\ buf0 = buffer
    /\ lastFound = FALSE
    /\ lastCall = NoBuilderCall
    /\ imageData = NoImage
    /\ brightnessThreshold = 382
    /\ command = <<>>
    /\ encDone = FALSE
    /\ encCalls = 0
    /\ firstCommand = <<>>
    /\ colsRead = {}
    /\ maxRead = -1
    /\ cc = [c \in CallIds |-> NoCall]
    /\ fx = [NoFix EXCEPT !.pc = "start"]

NextFix ==
    \/ \E a \in FixArgs : print_fixId(a[1], a[2])
    \/ \E r \in LiveResps : FixHealth(r)
    \/ \E r \in ProbeResps : FixProbe(r)
    \/ \E b \in HealthBodies : FixJson(b)
    \/ \E r \in FetchResps : FilterFetch(r)
    \/ \E b \in FixBodies, parsed \in BOOLEAN : FilterJson(b, parsed)
    \/ \E r \in PostResps : FixPost(r)

SpecFix == InitFix /\ [][NextFix]_vars

\* ---- two calls on the same instance, interleaved at their awaits ---------

\* variant: the loop variable is a field of the instance, shared by the calls
WithPort_Shared(cs, c, p) == [k \in CallIds |-> [cs[k] EXCEPT !.port = p]]

\* `let port` is a local of the call
WithPort(cs, c, p) == [cs EXCEPT ![c].port = p]

\* the call reaches the fetch of the probe of port p
CProbeAt(cs, c, p) == WithPort([cs EXCEPT ![c].pc = "probe"], c, p)

\* findDriver of call c returns true, having verified endpoint v; d is
\* this.driverApi.  print goes on to its next await: the request for the
\* printers when it has no name (getPrinters(this.driverApi) looks for the
\* driver itself when that is null), else the POST to this.driverApi
CFound(cs, c, v, d) ==
    LET t == [cs EXCEPT ![c].result = "true", ![c].verified = v]
    IN  IF cs[c].op = "findDriver" THEN [t EXCEPT ![c].pc = "done"]
        ELSE IF cs[c].name = NoName
        THEN [t EXCEPT ![c].pc = IF Truthy(d) THEN "printers" ELSE "tempFind"]
        ELSE [t EXCEPT ![c].pc = "post", ![c].postTo = d]

\* findDriver of call c returns false; print throws
CNotFound(cs, c) == [cs EXCEPT ![c].pc = "done", ![c].result = "false"]

\* port++ and the loop test: the next probe, or return false
CNextProbe(cs, c) ==
    IF ScanContinues(NextPort(cs[c].port))
    THEN CProbeAt(cs, c, NextPort(cs[c].port))
    ELSE CNotFound(cs, c)

\* a call of findDriver() or print(nm) runs to the first await of findDriver
CStart(c, o, nm) ==
    /\ cc[c].pc = "none"
    /\ o \in CallOps(c)
    /\ o = "findDriver" => nm = NoName
    /\ cc' = LET t == [cc EXCEPT ![c].op = o, ![c].name = nm]
             IN  IF Truthy(driverApi["this"])
                 THEN [t EXCEPT ![c].pc = "health",
                                ![c].liveTo = driverApi["this"]]
                 ELSE CProbeAt(t, c, PortLow)
    /\ UNCHANGED <<printerVars, encVars, fx>>

\* the liveness probe of a call settles
CHealth(c, r) ==
    /\ cc[c].pc = "health"
    /\ driverApi' = ApiAfterLiveness(r, driverApi, "this")
    /\ cc' = LET t == [cc EXCEPT ![c].liveResp = r, ![c].liveTo = NULL]
             IN  IF r = "ok"
                 THEN CFound(t, c, cc[c].liveTo, driverApi["this"])
                 ELSE CProbeAt(t, c, PortLow)
    /\ UNCHANGED <<buffer, stack, pc, inst, port, printerName, apiUrl, fd,
                   sent, outcome, buf0, lastFound, lastCall, encVars, fx>>

\* the fetch of a call's current port settles
CProbe(c, r) ==
    /\ cc[c].pc = "probe"
    /\ cc' = IF r = "ok" THEN [cc EXCEPT ![c].pc = "json"]
             ELSE CNextProbe(cc, c)
    /\ UNCHANGED <<printerVars, encVars, fx>>

\* res.json() of a call settles
CJson(c, b) ==
    /\ cc[c].pc = "json"
    /\ cc' = IF b # "unparsable" /\ IsDriver(b)
             THEN CFound([cc EXCEPT ![c].hit = cc[c].port], c,
                         Url(cc[c].port), driverApi["this"])
             ELSE CNextProbe(cc, c)
    /\ UNCHANGED <<printerVars, encVars, fx>>

\* getPrinters(null) inside print: the findDriver of its own instance
\* returns found; it does not touch this
CTempFind(c, found) ==
    /\ cc[c].pc = "tempFind"
    /\ cc' = [cc EXCEPT ![c].pc = IF found THEN "printers" ELSE "done"]
    /\ UNCHANGED <<printerVars, encVars, fx>>

\* getPrinters inside print returns: a printer, and the POST goes to
\* this.driverApi as it is now, or no printer, and print throws
CPrinters(c, has) ==
    /\ cc[c].pc = "printers"
    /\ cc' = IF has
             THEN [cc EXCEPT ![c].pc = "post",
                             ![c].postTo = driverApi["this"]]
             ELSE [cc EXCEPT ![c].pc = "done"]
    /\ UNCHANGED <<printerVars, encVars, fx>>

\* the POST settles
CPost(c, r) ==
    /\ cc[c].pc = "post"
    /\ buffer' = BufferAfterPost(r, buffer)
    /\ cc' = [cc EXCEPT ![c].pc = "done"]
    /\ UNCHANGED <<driverApi, stack, pc, inst, port, printerName, apiUrl, fd,
                   sent, outcome, buf0, lastFound, lastCall, encVars, fx>>

\* the caller assigns the endpoint, but not while a print of its own is
\* under way: what changes driverApi during a print is another call
CAssign(u) ==
    /\ \A c \in CallIds : cc[c].op = "print" => cc[c].pc \in {"none", "done"}
    /\ AssignDriverApi(u)

NextConc ==
    \/ \E c \in CallIds, o \in {"findDriver", "print"}, nm \in {NoName, "A"} :
            CStart(c, o, nm)
    \/ \E c \in CallIds, r \in LiveResps : CHealth(c, r)
    \/ \E c \in CallIds, r \in ProbeResps : CProbe(c, r)
    \/ \E c \in CallIds, b \in HealthBodies : CJson(c, b)
    \/ \E c \in CallIds, found \in BOOLEAN : CTempFind(c, found)
    \/ \E c \in CallIds, has \in BOOLEAN : CPrinters(c, has)
    \/ \E c \in CallIds, r \in PostResps : CPost(c, r)
    \/ \E u \in ConcUrls \cup {NULL} : CAssign(u)

SpecConc == Init /\ [][NextConc]_vars

\* ---- the encoder applied to every bounded pixel buffer ---------------------

InitEnc ==
    /\ driverApi = [i \in Inst |-> NULL]
    /\ buffer = <<>>
    /\ stack = <<>>
    /\ pc = "idle"
    /\ inst = "this"
    /\ port = 0
    /\ printerName = NoName
    /\ apiUrl = NULL
    /\ fd = [i \in Inst |-> FreshTrace]
    /\ sent = {}
    /\ outcome = NoOutcome
    /\ buf0 = <<>>
    /\ lastFound = FALSE
    /\ lastCall = NoBuilderCall
    /\ imageData \in Images
    /\ brightnessThreshold \in Thresholds
    /\ command = <<>>
    /\ encDone = FALSE
    /\ encCalls = 0
    /\ firstCommand = <<>>
    /\ colsRead = {}
    /\ maxRead = -1
    /\ cc = [c \in CallIds |-> NoCall]
    /\ fx = NoFix

\* command = convertCanvasToEscPos(imageData, brightnessThreshold)
Encode ==
    /\ encCalls < MaxCalls
    /\ command' = EscPosAfter(command, imageData, brightnessThreshold)
    /\ firstCommand' = IF encCalls = 0 THEN command' ELSE firstCommand
    /\ imageData' = InputAfter(imageData, brightnessThreshold)
    /\ colsRead' = ColumnsRead(imageData)
    /\ maxRead' = MaxIndexRead(imageData)
    /\ encCalls' = encCalls + 1
    /\ encDone' = TRUE
    /\ UNCHANGED <<printerVars, brightnessThreshold, cc, fx>>

\* between two calls the caller changes the printer's endpoint
NextEnc ==
    \/ Encode
    \/ \E u \in {NULL, Url(PortLow)} : AssignDriverApi(u)

SpecEnc == InitEnc /\ [][NextEnc]_vars

TypeOK ==
    /\ driverApi \in [Inst -> Urls \cup {NULL}]
    /\ buffer \in Seq(0..255) /\ Len(buffer) <= MaxBuf
    /\ pc \in {"idle", "health", "probe", "json", "printers",
               "printersJson", "post", "done", "hung"}
    /\ port \in Ports \cup {0}
    /\ printerName \in PrinterNames \cup {NoName}

\* ---- properties ------------------------------------------------------------

PortSeq == [k \in 1..(PortHigh - PortLow + 1) |-> PortLow + k - 1]
IsPrefix(a, b) == Len(a) <= Len(b) /\ \A k \in 1..Len(a) : a[k] = b[k]
LiveFailed(t) == t.liveResp \in {"notok", "err"}
FindDriverReturned == pc = "done" /\ outcome.op = "findDriver"

\* C1: when findDriver() returns true after a port scan, driverApi is the
\* URL of the port whose probe answered with success and service CDH-Driver.
C1_CachedEndpointIsVerifiedPort ==
    (FindDriverReturned /\ outcome.found /\ fd["this"].hit # 0)
        => driverApi["this"] = Url(fd["this"].hit)

\* C2: fast path: after findDriver() returned true, the next findDriver()
\* on the same instance issues a scan probe only after the liveness probe of
\* the cached endpoint failed, and with a successful liveness probe it
\* returns true after that single request.
C2_FastPathAfterTrue ==
    (outcome.op = "findDriver" /\ fd["this"].prev)
        => /\ fd["this"].scanLog # <<>> => LiveFailed(fd["this"])
           /\ (pc = "done" /\ fd["this"].liveResp = "ok")
                  => outcome.found /\ fd["this"].scanLog = <<>>

\* C3: when the liveness probe of a cached endpoint fails (network error or
\* non-success status), driverApi is empty while the scan runs.
C3_FailedLivenessDiscardsCache ==
    \A i \in Inst :
        (fd[i].result = "none" /\ fd[i].scanLog # <<>> /\ LiveFailed(fd[i]))
            => driverApi[i] = NULL

\* C4: whenever findDriver() returns false, driverApi is empty on return.
C4_FalseMeansUnresolved ==
    (FindDriverReturned /\ ~outcome.found) => driverApi["this"] = NULL

\* C5: recovery: the cached endpoint failed its liveness probe and the rescan
\* found the service on another port: findDriver() returns true and driverApi
\* is the URL of the new port.
C5_RecoveryUpdatesCache ==
    (/\ FindDriverReturned
     /\ LiveFailed(fd["this"])
     /\ fd["this"].hit # 0
     /\ Url(fd["this"].hit) # fd["this"].entryApi)
        => outcome.found /\ driverApi["this"] = Url(fd["this"].hit)

\* an endpoint findDriver confirmed during this operation: the port a scan
\* matched, or (read generously) a cached endpoint whose liveness probe
\* succeeded
VerifiedInCall(u) ==
    /\ u # NULL
    /\ \E i \in Inst :
        \/ fd[i].hit # 0 /\ u = Url(fd[i].hit)
        \/ fd[i].liveResp = "ok" /\ u = fd[i].liveTo

\* C6: every /printers and /print request of print() goes to an endpoint
\* that findDriver() verified during that print() call, never to an empty or
\* unverified one.
C6_PrintOnlyToVerifiedEndpoint ==
    outcome.op = "print" => \A r \in sent : VerifiedInCall(r.to)

\* C7: print() leaves the buffer unchanged on every failure path and empties
\* it only after the POST to /print answered with a success status.
C7_BufferClearedOnlyOnSuccess ==
    outcome.op = "print"
        => /\ outcome.kind # "success" => buffer = buf0
           /\ outcome.kind = "success"
                  => buffer = <<>> /\ outcome.post = "ok"
           /\ outcome.post = "ok" => outcome.kind = "success"

C7_Witness ==
    /\ pc = "done" /\ outcome.op = "print" /\ outcome.kind = "success"
    /\ buf0 # <<>> /\ buffer = <<>>

\* C8: when findDriver() returns false inside print(), print() fails with
\* DriverNotFound and has issued no /printers and no /print request.
C8_NotFoundFailsWithoutRequest ==
    (outcome.op = "print" /\ fd["this"].result = "false")
        => /\ pc = "done"
           /\ outcome.kind = "DriverNotFound"
           /\ sent = {}

C8_Witness ==
    /\ pc = "done" /\ outcome.op = "print"
    /\ fd["this"].result = "false" /\ outcome.kind = "DriverNotFound"

\* C9: the scan probes of one findDriver() call are a prefix of
\* 9123, 9124, ..., 9130: ascending, none skipped, repeated or reordered.
C9_ScanIsAscendingPrefix ==
    \A i \in Inst : IsPrefix(fd[i].scanLog, PortSeq)

C9_Witness ==
    /\ pc = "json" /\ inst = "this"
    /\ fd["this"].scanLog = <<9123, 9124, 9125, 9126>>

\* C10: findDriver() returns false only after the scan probed all 8 ports,
\* each exactly once, in ascending order.
C10_FalseOnlyAfterFullScan ==
    \A i \in Inst : fd[i].result = "false" => fd[i].scanLog = PortSeq

C10_Witness ==
    /\ FindDriverReturned /\ ~outcome.found
    /\ Len(fd["this"].scanLog) = 8

\* the scan of instance i goes on with the port after q
ScanGoesOn(i, q) ==
    /\ fd[i].result = "none"
    /\ Last(fd[i].scanLog) = q + 1
    /\ stack # <<>> /\ Last(stack) = "findDriver" /\ inst = i
    /\ pc \in {"probe", "json", "hung"} /\ port = q + 1

\* after the probe of port q was a miss: the next port is probed, or, after
\* the last port, findDriver returned false
MissHandled(i, q) ==
    IF q < PortHigh THEN ScanGoesOn(i, q) ELSE fd[i].result = "false"

\* C11: first match wins: once a port answers with the valid signature,
\* findDriver() returns true at once; every lower port was probed before it
\* and no higher port is probed.
C11_FirstMatchWins ==
    \A i \in Inst :
        fd[i].hit # 0
            => /\ fd[i].result = "true"
               /\ fd[i].last = "CDH-Driver" /\ fd[i].lastPort = fd[i].hit
               /\ fd[i].scanLog = SubSeq(PortSeq, 1, fd[i].hit - PortLow + 1)

C11_Witness ==
    /\ FindDriverReturned /\ outcome.found
    /\ fd["this"].hit = 9125 /\ Len(fd["this"].scanLog) = 3

\* C12: a scan probe that timed out or failed (rejected fetch, abort,
\* unparsable body) counts as a miss: the scan continues with the next port,
\* or returns false after the last one; it is never ended by the failure.
C12_ProbeErrorIsMiss ==
    \A i \in Inst :
        fd[i].last \in {"err", "timeout", "unparsable"}
            => MissHandled(i, fd[i].lastPort)

C12_Witness ==
    /\ fd["this"].last = "timeout" /\ fd["this"].lastPort = 9124
    /\ pc = "probe" /\ port = 9125

\* C13: a port that answers with success but another (or no) service name is
\* skipped: it is not the match, it is not cached, findDriver does not
\* return true on it, and the scan proceeds to the next port.
C13_OtherServiceSkipped ==
    \A i \in Inst :
        fd[i].last \in {"other", "missing"}
            => /\ fd[i].hit = 0
               /\ fd[i].result # "true"
               /\ driverApi[i] \in {NULL, fd[i].entryApi}
               /\ MissHandled(i, fd[i].lastPort)

C13_Witness ==
    /\ fd["this"].last = "other" /\ fd["this"].lastPort = 9123
    /\ pc = "json" /\ port = 9124

\* C14: every health probe of findDriver() is bounded by the 100 ms timeout,
\* so no findDriver() call stays blocked on a probe that never answers.
C14_EveryProbeBounded ==
    ~(pc = "hung" /\ stack # <<>> /\ Last(stack) = "findDriver")

\* a step of the caller that is not a step of an asynchronous operation
\* (raw, clear, an assignment to the public field driverApi)
CallerStep == Idle /\ pc' = "idle"

InFlight == UNION {fd[i].inflight : i \in Inst}

\* C16: within one findDriver() call at most one health probe is in flight
\* at any time; the next one is issued only after the previous one settled.
C16_OneProbeInFlight ==
    /\ Cardinality(InFlight) <= 1
    /\ pc \in {"probe", "json"} => InFlight = {ScanReq(port)}
    /\ pc = "health" => InFlight = {LiveReq(fd[inst].liveTo)}

C16_Witness ==
    /\ pc = "probe" /\ port = 9127
    /\ fd["this"].inflight = {ScanReq(9127)}
    /\ fd["this"].liveResp = "notok"

\* C18: getPrinters(overrideUrl) with a non-empty override issues no /health
\* probe and sends its single /printers request to the override endpoint.
C18_OverrideBypassesDiscovery ==
    (outcome.op = "getPrinters" /\ outcome.arg # NULL)
        => /\ \A i \in Inst : ~fd[i].called /\ fd[i].inflight = {}
           /\ sent = {[path |-> "printers", to |-> outcome.arg]}

C18_Witness ==
    /\ pc = "done" /\ outcome.op = "getPrinters"
    /\ outcome.arg = Url(9125) /\ outcome.kind = "returned"
    /\ HasPrinters(outcome.printers)

\* discovery failed, or the /printers request failed, in getPrinters()
EnumerationFailed ==
    /\ pc = "done" /\ outcome.op = "getPrinters"
    /\ \/ fd["temp"].result = "false"
       \/ outcome.fetch \in {"err", "unparsable"}

WidthBytes(w) == CHOOSE n \in 0..w : 8 * n >= w /\ 8 * (n - 1) < w

\* C20: for every width > 0 the size field reports widthBytes =
\* ceil(width / 8) (300 -> 38, 256 -> 32, 210 -> 27) and the output has
\* exactly 8 + height * widthBytes bytes.
C20_WidthBytesAndLength ==
    encDone /\ imageData.width > 0 /\ imageData.height >= 0
        => LET wb == WidthBytes(imageData.width)
           IN  /\ command[5] = wb % 256 /\ command[6] = wb \div 256
               /\ Len(command) = 8 + imageData.height * wb
               /\ imageData.width = 300 => command[5] = 38
               /\ imageData.width = 256 => command[5] = 32
               /\ imageData.width = 210 => command[5] = 27

C20_Witness ==
    /\ encDone /\ imageData.width = 300 /\ imageData.height = 2
    /\ command[5] = 38 /\ Len(command) = 84

\* C17: when two findDriver calls on one instance overlap, a step of one
\* call leaves the other call's locals (its port, hence its candidate URL)
\* alone, and a step of a call changes driverApi only by a whole write: to
\* null, or to the URL of the port that call has just verified.
C17_ProbeLocalUntilCommit ==
    [][/\ \A c \in CallIds :
            cc'[c] = cc[c] \/ \A k \in CallIds \ {c} : cc'[k] = cc[k]
       /\ cc' # cc
            => \/ driverApi'["this"] \in {driverApi["this"], NULL}
               \/ \E c \in CallIds :
                    /\ cc'[c] # cc[c] /\ cc'[c].result = "true"
                    /\ cc'[c].hit \in Ports
                    /\ driverApi'["this"] = Url(cc'[c].hit)]_vars

\* both calls are scanning, on different ports, after one of them cleared
\* the cache
C17_Witness ==
    /\ cc[1].pc = "probe" /\ cc[1].port = 9125 /\ cc[1].liveResp = "err"
    /\ cc[2].pc = "json" /\ cc[2].port = 9123
    /\ driverApi["this"] = NULL

\* ---- properties of the encoder ----------------------------------------------

WellFormed(img) ==
    /\ img.width > 0 /\ img.height > 0
    /\ Len(img.data) = img.width * img.height * 4

\* red + green + blue of the pixel in row y, column px
ChannelSum(img, y, px) ==
    LET i == (y * img.width + px) * 4
    IN  img.data[i + 1] + img.data[i + 2] + img.data[i + 3]

\* the bit of mask m is set in byte b
BitSet(b, m) == (b \div m) % 2 = 1

\* the bit of the output for row y, column px (of the padded row)
OutBit(y, px) ==
    BitSet(command[9 + y * WidthBytes(imageData.width) + (px \div 8)],
           2 ^ (7 - (px % 8)))

AllChannels(img, v) == \A k \in DOMAIN img.data : img.data[k] = v

\* C21: for every pixel (px, y) with px < width the bit at data byte
\* y * widthBytes + floor(px / 8), mask 1 << (7 - px mod 8), is 1 iff
\* red + green + blue < threshold: a sum equal to the threshold gives 0.
C21_BitIffBelowThreshold ==
    encDone /\ WellFormed(imageData)
        => \A y \in 0..(imageData.height - 1), px \in 0..(imageData.width - 1) :
              OutBit(y, px) <=> ChannelSum(imageData, y, px) < brightnessThreshold

C21_Witness ==
    /\ encDone /\ brightnessThreshold = 382
    /\ imageData.width = 2 /\ imageData.height = 1
    /\ imageData.data = <<128, 127, 127, 0, 127, 127, 127, 255>>
    /\ command[9] = 64

\* C22: every bit of a row that stands for a column >= width is 0, and the
\* encoder reads the data only at columns < width, so below width*height*4.
C22_PaddingIsBackgroundAndUnread ==
    encDone /\ imageData.width > 0 /\ imageData.height > 0
        => /\ \A y \in 0..(imageData.height - 1) :
                \A px \in imageData.width..(8 * WidthBytes(imageData.width) - 1) :
                    ~OutBit(y, px)
           /\ colsRead \subseteq 0..(imageData.width - 1)
           /\ maxRead < imageData.width * imageData.height * 4

C22_Witness ==
    /\ encDone /\ WellFormed(imageData) /\ brightnessThreshold = 382
    /\ imageData.width = 9 /\ imageData.height = 2
    /\ AllChannels(imageData, 0)
    /\ command[10] = 128 /\ command[12] = 128
    /\ colsRead = 0..8 /\ maxRead = 70

\* C23: a buffer with width <= 0, height <= 0 or data.length # width*height*4
\* is rejected: the call fails and returns no output.
C23_MalformedRejected == encDone /\ ~WellFormed(imageData) => command = <<>>

\* C24: when widthBytes or height exceeds 65535 the call fails and no size
\* descriptor is emitted.
C24_OversizeRejected ==
    encDone /\ (imageData.width > 8 * 65535 \/ imageData.height > 65535)
        => Len(command) < 8

\* C25: with threshold 382 a buffer of channels 255 gives data bytes 0x00, a
\* buffer of channels 0 gives 0xFF for every byte fully inside the image;
\* for 8 x 1: header, size fields and the single byte 0x00, resp. 0xFF.
C25_WhiteAndBlackBuffers ==
    encDone /\ WellFormed(imageData) /\ brightnessThreshold = 382
        => LET wb == WidthBytes(imageData.width)
           IN  /\ AllChannels(imageData, 255)
                    => \A k \in 9..Len(command) : command[k] = 0
               /\ AllChannels(imageData, 0)
                    => \A y \in 0..(imageData.height - 1), xb \in 0..(wb - 1) :
                          xb * 8 + 7 < imageData.width
                              => command[9 + y * wb + xb] = 255
               /\ imageData.width = 8 /\ imageData.height = 1
                    => /\ AllChannels(imageData, 255)
                            => command = <<29, 118, 48, 0, 1, 0, 1, 0, 0>>
                       /\ AllChannels(imageData, 0)
                            => command = <<29, 118, 48, 0, 1, 0, 1, 0, 255>>

C25_Witness ==
    /\ encDone /\ brightnessThreshold = 382
    /\ imageData.width = 8 /\ imageData.height = 1
    /\ AllChannels(imageData, 0) /\ Len(imageData.data) = 32
    /\ command[9] = 255 /\ Len(command) = 9

Opaque(img) ==
    [img EXCEPT !.data =
        [k \in 1..Len(img.data) |-> IF k % 4 = 0 THEN 255 ELSE img.data[k]]]

\* C27: the output is that of the buffer with the same red, green and blue
\* values and every alpha 255, so buffers that differ in alpha only encode
\* to the same bytes.
C27_AlphaIgnored ==
    encDone /\ WellFormed(imageData)
        => command = convertCanvasToEscPos(Opaque(imageData), brightnessThreshold)

C27_Witness ==
    /\ encDone /\ brightnessThreshold = 1
    /\ imageData.width = 1 /\ imageData.height = 1
    /\ imageData.data = <<0, 0, 0, 0>>
    /\ command[9] = 128

\* C28: no step changes width, height or an element of data.
C28_InputNotMutated == [][imageData' = imageData]_vars

C28_Witness ==
    /\ encCalls = 1 /\ WellFormed(imageData)
    /\ imageData.width = 2 /\ imageData.height = 2
    /\ command[9] = 192 /\ command[10] = 64

BuilderOps ==
    {"init", "align", "bold", "feed", "cut", "line", "newline", "divider",
     "beep", "drawerKick", "raw", "image"}

\* C29: a call of a builder method returns the instance it was called on
\* and leaves the buffer it found as a prefix of the buffer it leaves.
C29_BuilderAppendsInCallOrder ==
    [][lastCall'.op \in BuilderOps
          => IsPrefix(buffer, buffer') /\ lastCall'.returned = "this"]_vars

\* line("A") was called on a buffer that held the bytes of init()
C29_Witness ==
    /\ lastCall = Called("line")
    /\ buffer = <<27, 64, 65, 10>>

\* C30: the POST of a print goes to the endpoint the findDriver of that call
\* verified, also when another call ran in between.  Stated for the calls
\* whose findDriver returned true on the liveness probe of the cached
\* endpoint, where the endpoint is this.driverApi at that moment.
C30_PostToEndpointVerifiedInCall ==
    \A c \in CallIds :
        cc[c].op = "print" /\ cc[c].postTo # NotPosted /\ cc[c].liveResp = "ok"
            => cc[c].postTo = cc[c].verified

\* the requests a findDriver call has issued so far
Requests(t) == Len(t.scanLog) + (IF t.liveTo # NULL THEN 1 ELSE 0)

\* C31: in one findDriver call no port is probed twice, at most 9 requests
\* are issued (the liveness probe and 8 scan probes), and when the call has
\* returned false no request of it is outstanding.
C31_NoRetry ==
    \A i \in Inst :
        /\ \A j, k \in 1..Len(fd[i].scanLog) :
                fd[i].scanLog[j] = fd[i].scanLog[k] => j = k
        /\ Requests(fd[i]) <= 9
        /\ fd[i].result = "false" => fd[i].inflight = {}

C31_Witness ==
    /\ FindDriverReturned /\ ~outcome.found
    /\ fd["this"].liveResp = "err"
    /\ Requests(fd["this"]) = 9

VerifiedByThis(u) ==
    /\ u # NULL
    /\ \/ fd["this"].hit # 0 /\ u = Url(fd["this"].hit)
       \/ fd["this"].liveResp = "ok" /\ u = fd["this"].liveTo

\* C33: print() without a name asks the endpoint its findDriver verified for
\* the printers; when it fails for want of a printer it has sent no POST to
\* /print and the buffer is as it was.
C33_EnumeratesAtVerifiedEndpoint ==
    outcome.op = "print"
        => /\ \A q \in sent : q.path = "printers" => VerifiedByThis(q.to)
           /\ outcome.kind = "NoPrinter"
                => /\ \A q \in sent : q.path # "print"
                   /\ buffer = buf0

\* C34: for a buffer with widthBytes and height from 0 up to 65535, the output starts with 1D 76 30 00, then widthBytes and height
\* as (n mod 256, floor(n / 256)); every element is in 0..255 and
\* low + 256 * high gives widthBytes and height back.
C34_HeaderAndSizeFields ==
    (/\ encDone /\ imageData.width >= 0 /\ imageData.height >= 0
     /\ imageData.width <= 8 * 65535 /\ imageData.height <= 65535)
        => LET wb == WidthBytes(imageData.width)
               h == imageData.height
           IN  /\ SubSeq(command, 1, 4) = <<29, 118, 48, 0>>
               /\ SubSeq(command, 5, 8)
                    = <<wb % 256, wb \div 256, h % 256, h \div 256>>
               /\ \A k \in 1..Len(command) : command[k] \in 0..255
               /\ command[5] + 256 * command[6] = wb
               /\ command[7] + 256 * command[8] = h

C34_Witness ==
    /\ encDone /\ imageData.width = 2041 /\ imageData.height = 1
    /\ SubSeq(command, 1, 8) = <<29, 118, 48, 0, 0, 1, 1, 0>>

C38_ClearAndGetBufferFrame ==
    [][/\ lastCall'.op = "clear"
            => buffer' = <<>> /\ driverApi' = driverApi
       /\ lastCall'.op = "getBuffer"
            => /\ lastCall'.bytes = buffer
               /\ buffer' = buffer /\ driverApi' = driverApi
       /\ (pc = "post" /\ pc' = "done" /\ outcome'.kind = "success")
            => driverApi' = driverApi]_vars

\* getBuffer() was called with the bytes of init() in the buffer and an
\* endpoint set
C38_Witness ==
    /\ lastCall.op = "getBuffer" /\ lastCall.bytes = <<27, 64>>
    /\ buffer = <<27, 64>>
    /\ driverApi["this"] = Url(PortLow)

\* the printer p has the identifiers print_fixId was called with
MatchesArgs(p) == p.vid = fx.vid /\ p.pid = fx.pid

\* C36: the filter returns the printers of the enumeration whose vid and
\* pid both equal the arguments, in their order, and leaves the enumerated
\* list as it was received.
C36_FilterByVidPid ==
    fx.filterDone /\ fx.body.isArray
        => /\ fx.filtered = SelectSeq(fx.body.items, MatchesArgs)
           /\ fx.allPrinters = fx.body.items

\* a printer with the vid but another pid was left out
C36_Witness ==
    /\ fx.filterDone /\ fx.vid = "V1" /\ fx.pid = "P1"
    /\ fx.body.items = <<[name |-> "A", vid |-> "V1", pid |-> "P2"],
                         [name |-> "B", vid |-> "V1", pid |-> "P1"]>>
    /\ fx.filtered = <<[name |-> "B", vid |-> "V1", pid |-> "P1"]>>

\* C37: a POST of print_fixId carries the name of the first printer of the
\* enumeration whose vid and pid both match; when the driver is not found
\* or no printer matches, the call has thrown without a POST and the buffer
\* is as it was.
C37_PrintFixIdFirstMatch ==
    /\ fx.postTo # NotPosted
        => \E k \in 1..Len(fx.body.items) :
              /\ MatchesArgs(fx.body.items[k])
              /\ \A j \in 1..(k - 1) : ~MatchesArgs(fx.body.items[j])
              /\ fx.name = fx.body.items[k].name
    /\ fx.kind \in {"DriverNotFound", "NoPrinterMatch"}
        => fx.postTo = NotPosted /\ buffer = buf0
    /\ (fx.filterDone /\ \A k \in 1..Len(fx.body.items) :
                            ~MatchesArgs(fx.body.items[k]))
        => fx.kind = "NoPrinterMatch"
    /\ fx.kind = "success" => fx.postTo = driverApi["this"] /\ buffer = <<>>

C37_Witness ==
    /\ fx.kind = "success" /\ fx.name = "A" /\ fx.vid = "V1"
    /\ fx.body.items = <<[name |-> "A", vid |-> "V1", pid |-> "P1"],
                         [name |-> "B", vid |-> "V1", pid |-> "P1"]>>
    /\ buf0 # <<>> /\ buffer = <<>>

====
